---- MODULE Spec2Model ----
(***************************************************************************)
(* News aggregator CLI (News_aggregator_cli.py): the three source         *)
(* adapters, deduplicate, filter_headlines, the sinks and main().          *)
(*                                                                         *)
(* Python strings that the program inspects character by character        *)
(* (titles, keywords, timestamps, dates) are sequences of one-character   *)
(* strings.  Enumerated strings (source names, sink names) are TLA+       *)
(* strings.  A value that may be None is None or Some(v).                 *)
(***************************************************************************)
EXTENDS Integers, Sequences, FiniteSets, TLC

VARIABLES
    args,          \* argparse namespace of main(): source, keyword, date, store, export
    NEWSAPI_KEY,   \* os.getenv('NEWSAPI_KEY'), read once at import
    pc,            \* position of main()
    headlines,     \* the local variable `headlines` of main()
    clock,         \* index into NowStamps of the last datetime.now() reading
    invoked,       \* adapters called so far, in call order
    returned,      \* adapter -> None, or Some(list) once the adapter has returned
    dedupeCalls,   \* arguments deduplicate() has been called with
    filterCalls,   \* arguments filter_headlines() has been called with
    sinkCalls,     \* sink calls so far: sink, data handed over, outcome
    console,       \* lines printed on stdout
    stderr,        \* what reached stderr (an uncaught exception's traceback)
    exitCode,      \* None while running, then the process exit status
    call,          \* function-level runs: which call sequence has been applied
    input,         \* function-level runs: the input list
    preds,         \* function-level runs: source, keyword, date predicates
    output         \* function-level runs: the successive results

mainVars == <<args, NEWSAPI_KEY, pc, headlines, clock, invoked, returned,
              dedupeCalls, filterCalls, sinkCalls, console, stderr, exitCode>>
unitVars == <<call, input, preds, output>>
vars == <<mainVars, unitVars>>

----------------------------------------------------------------------------
(* Bounds *)

MaxArticles == 2     \* articles in one NewsAPI response
MaxNodes == 2        \* matching nodes in one scraped page
MaxLen == 3          \* length of the input list of a function-level run

----------------------------------------------------------------------------
(* Python values *)

None == [isNone |-> TRUE]
Some(v) == [isNone |-> FALSE, val |-> v]

\* bool(v) of an Optional[str] held as a TLA+ string
TruthyName(o) == ~o.isNone /\ o.val # ""
\* bool(v) of an Optional[str] held as a character sequence
TruthyText(o) == ~o.isNone /\ Len(o.val) > 0

Ok(v) == [raised |-> FALSE, value |-> v]
Raise(e) == [raised |-> TRUE, exc |-> e]

Min(a, b) == IF a <= b THEN a ELSE b

\* s[:n]
Prefix(s, n) == SubSeq(s, 1, Min(n, Len(s)))

\* str.lower() on one character of the alphabet used here
LowerChar(c) ==
    CASE c = "A" -> "a"
      [] c = "B" -> "b"
      [] OTHER -> c

\* str.lower()
Lower(s) == [i \in 1..Len(s) |-> LowerChar(s[i])]

\* k in t
Contains(t, k) ==
    \E i \in 0..(Len(t) - Len(k)) : SubSeq(t, i + 1, i + Len(k)) = k

IsSpace(c) == c = " "

RECURSIVE LStrip(_)
LStrip(s) == IF s # <<>> /\ IsSpace(Head(s)) THEN LStrip(Tail(s)) ELSE s

RECURSIVE RStrip(_)
RStrip(s) ==
    IF s # <<>> /\ IsSpace(s[Len(s)]) THEN RStrip(SubSeq(s, 1, Len(s) - 1)) ELSE s

\* str.strip(), as done by get_text(strip=True) on a node holding one string
Strip(s) == RStrip(LStrip(s))

\* all sequences over S of length at most n
SeqsUpTo(S, n) == UNION {[1..k -> S] : k \in 0..n}

RECURSIVE Flatten(_)
Flatten(ss) == IF ss = <<>> THEN <<>> ELSE Head(ss) \o Flatten(Tail(ss))

----------------------------------------------------------------------------
(* Module constants *)

\* the URLs, shortened to their host
NEWS_SOURCES ==
    [newsapi |-> <<"n", "e", "w", "s", "a", "p", "i", ".", "o", "r", "g">>,
     bbc |-> <<"b", "b", "c", ".", "c", "o", "m">>,
     cnn |-> <<"c", "n", "n", ".", "c", "o", "m">>]

DateLen == 10

D1 == <<"2", "0", "2", "4", "-", "0", "1", "-", "0", "5">>
D2 == <<"2", "0", "2", "4", "-", "0", "1", "-", "0", "6">>
T1 == D1 \o <<"T", "1", "0", ":", "0", "0", ":", "0", "0">>
T2 == D1 \o <<"T", "2", "3", ":", "5", "9", ":", "5", "9">>
T3 == D2 \o <<"T", "0", "0", ":", "0", "0", ":", "0", "0">>

\* readings datetime.now().isoformat() can give during a run, in time order
NowStamps == <<T2, T3>>

----------------------------------------------------------------------------
(* deduplicate *)

\* key = (h['title'], h['source'])
Key(h) == <<h.title, h.source>>

RECURSIVE dedupLoop(_, _, _, _)
dedupLoop(hs, i, seen, deduped) ==
    IF i > Len(hs) THEN deduped
    ELSE LET h == hs[i]
             key == Key(h)
         IN IF key \notin seen
            THEN dedupLoop(hs, i + 1, seen \cup {key}, Append(deduped, h))
            ELSE dedupLoop(hs, i + 1, seen, deduped)

\* deduplicate keyed by a dict that a later record of the same key overwrites
deduplicateKeepLast(hs) ==
    LET d == dedupLoop(hs, 1, {}, <<>>)
        last(k) == CHOOSE i \in 1..Len(hs) :
                       Key(hs[i]) = k /\ \A j \in (i + 1)..Len(hs) : Key(hs[j]) # k
    IN [i \in 1..Len(d) |-> hs[last(Key(d[i]))]]

RECURSIVE dedupPrependLoop(_, _, _, _)
dedupPrependLoop(hs, i, seen, deduped) ==
    IF i > Len(hs) THEN deduped
    ELSE IF Key(hs[i]) \notin seen
         THEN dedupPrependLoop(hs, i + 1, seen \cup {Key(hs[i])}, <<hs[i]>> \o deduped)
         ELSE dedupPrependLoop(hs, i + 1, seen, deduped)

\* deduplicate with deduped.insert(0, h) in place of deduped.append(h)
deduplicatePrepend(hs) == dedupPrependLoop(hs, 1, {}, <<>>)

RECURSIVE dedupRemoveLoop(_, _, _, _)
dedupRemoveLoop(hs, i, seen, deduped) ==
    IF i > Len(hs) THEN deduped
    ELSE IF Key(hs[i]) \notin seen
         THEN dedupRemoveLoop(hs, i + 1, seen \cup {Key(hs[i])}, Append(deduped, hs[i]))
         ELSE IF i + 1 <= Len(hs)
              THEN dedupRemoveLoop(hs, i + 2, seen \cup {Key(hs[i + 1])},
                                   Append(deduped, hs[i + 1]))
              ELSE deduped

\* deduplicate removing duplicates from the list it iterates over: the element
\* after a removed one is never examined, and stays
deduplicateRemoveInLoop(hs) == dedupRemoveLoop(hs, 1, {}, <<>>)

RECURSIVE dedupTitleLoop(_, _, _, _)
dedupTitleLoop(hs, i, seen, deduped) ==
    IF i > Len(hs) THEN deduped
    ELSE IF hs[i].title \notin seen
         THEN dedupTitleLoop(hs, i + 1, seen \cup {hs[i].title}, Append(deduped, hs[i]))
         ELSE dedupTitleLoop(hs, i + 1, seen, deduped)

\* deduplicate with key = h['title']
deduplicateByTitle(hs) == dedupTitleLoop(hs, 1, {}, <<>>)

deduplicate(hs) == dedupLoop(hs, 1, {}, <<>>)

----------------------------------------------------------------------------
(* filter_headlines *)

\* filter_headlines with `elif keyword` and `elif date`
filter_headlines_elif(hs, source, keyword, date) ==
    IF TruthyName(source) THEN SelectSeq(hs, LAMBDA h : h.source = source.val)
    ELSE IF TruthyText(keyword)
         THEN SelectSeq(hs, LAMBDA h : Contains(Lower(h.title), Lower(keyword.val)))
         ELSE IF TruthyText(date)
              THEN SelectSeq(hs, LAMBDA h : Prefix(h.publishedAt, DateLen) = date.val)
              ELSE hs

filter_headlines(hs, source, keyword, date) ==
    LET f1 == IF TruthyName(source)
              THEN SelectSeq(hs, LAMBDA h : h.source = source.val)
              ELSE hs
        f2 == IF TruthyText(keyword)
              THEN SelectSeq(f1, LAMBDA h : Contains(Lower(h.title), Lower(keyword.val)))
              ELSE f1
        f3 == IF TruthyText(date)
              THEN SelectSeq(f2, LAMBDA h : Prefix(h.publishedAt, DateLen) = date.val)
              ELSE f2
    IN f3

----------------------------------------------------------------------------
(* What the network can answer *)

\* the 'url' of an article
ArticleUrl == <<"a", ".", "c", "o", "m">>

\* the 'title' of an article: null or missing, whitespace only, or a text
ApiTitles == {None, Some(<<" ">>), Some(<<"b">>)}

\* an article object of the NewsAPI answer; the last one lacks 'url'
ApiArticles ==
    {[title |-> t, url |-> ArticleUrl, publishedAt |-> p] : t \in ApiTitles, p \in {T1, T3}}
        \cup {[title |-> Some(<<"b">>), publishedAt |-> T1]}

\* requests.get raising
ConnErr == [kind |-> "connerr"]

\* the answers to the NewsAPI request: no connection, a body that is not JSON,
\* a JSON error object (any non-2xx status: it has no 'articles'), or, only
\* when an apiKey was sent, a JSON object with an 'articles' list
NewsapiResponses(key) ==
    {ConnErr, [kind |-> "body", json |-> None],
     [kind |-> "body", json |-> Some([status |-> "error"])]}
        \cup (IF key.isNone THEN {}
              ELSE {[kind |-> "body", json |-> Some([status |-> "ok", articles |-> as])] :
                        as \in SeqsUpTo(ApiArticles, MaxArticles)})

\* the text of a node the page's selector matches
RawTexts == {<<" ">>, <<" ", "b", " ">>}

\* the answers to a page request: no connection, or a page (of any status)
\* with the nodes its selector matches
PageResponses ==
    {ConnErr} \cup {[kind |-> "body", nodes |-> ns] : ns \in SeqsUpTo(RawTexts, MaxNodes)}

\* n successive datetime.now() readings from reading c on: indexes into NowStamps
NowReadings(c, n) ==
    {r \in [1..n -> c..Len(NowStamps)] : \A i \in 1..n : \A j \in i..n : r[i] <= r[j]}

----------------------------------------------------------------------------
(* Source adapters *)

fetch_newsapi_headlines(resp) ==
    IF resp.kind = "connerr" THEN Raise("ConnectionError")
    ELSE IF resp.json.isNone THEN Raise("JSONDecodeError")
    ELSE LET obj == resp.json.val
             articles == IF "articles" \in DOMAIN obj THEN obj.articles ELSE <<>>
             kept == SelectSeq(articles, LAMBDA a : TruthyText(a.title))
         IN IF \E i \in 1..Len(kept) : "url" \notin DOMAIN kept[i]
            THEN Raise("KeyError")
            ELSE Ok([i \in 1..Len(kept) |->
                        [source |-> "newsapi", title |-> kept[i].title.val,
                         url |-> kept[i].url, publishedAt |-> kept[i].publishedAt]])

\* the titles a page adapter keeps: get_text(strip=True), then `if title`
StrippedTitles(nodes) ==
    SelectSeq([i \in 1..Len(nodes) |-> Strip(nodes[i])], LAMBDA t : Len(t) > 0)

fetch_bbc_headlines(resp, nows) ==
    IF resp.kind = "connerr" THEN Raise("ConnectionError")
    ELSE LET titles == StrippedTitles(resp.nodes)
         IN Ok([i \in 1..Len(titles) |->
                   [source |-> "bbc", title |-> titles[i], url |-> NEWS_SOURCES.bbc,
                    publishedAt |-> NowStamps[nows[i]]]])

fetch_cnn_headlines(resp, nows) ==
    IF resp.kind = "connerr" THEN Raise("ConnectionError")
    ELSE LET titles == StrippedTitles(resp.nodes)
         IN Ok([i \in 1..Len(titles) |->
                   [source |-> "cnn", title |-> titles[i], url |-> NEWS_SOURCES.cnn,
                    publishedAt |-> NowStamps[nows[i]]]])

----------------------------------------------------------------------------
(* main *)

ArgSources == {"newsapi", "bbc", "cnn", "all"}
ArgKeywords == {None, Some(<<"B">>)}
ArgDates == {None, Some(D1)}
ArgStores == {None, Some("json"), Some("sqlite")}
ArgExports == {None, Some("csv"), Some("excel")}

Selected(s) == args.source \in {"all", s}

\* an uncaught exception: the interpreter prints the traceback and exits 1
Crash(at, exc) ==
    /\ pc' = "crashed"
    /\ exitCode' = 1
    /\ stderr' = Append(stderr, [kind |-> "traceback", at |-> at, exc |-> exc])

unitIdle ==
    /\ call = "none"
    /\ input = <<>>
    /\ preds = [source |-> None, keyword |-> None, date |-> None]
    /\ output = <<>>

Init ==
    /\ args \in [source : ArgSources, keyword : ArgKeywords, date : ArgDates,
                 store : ArgStores, export : ArgExports]
    /\ NEWSAPI_KEY \in {None, Some("k")}
    /\ pc = "fetch_newsapi"
    /\ headlines = <<>>
    /\ clock = 1
    /\ invoked = <<>>
    /\ returned = [s \in DOMAIN NEWS_SOURCES |-> None]
    /\ dedupeCalls = <<>>
    /\ filterCalls = <<>>
    /\ sinkCalls = <<>>
    /\ console = <<>>
    /\ stderr = <<>>
    /\ exitCode = None
    /\ unitIdle

\* Arrive with headlines = r + headlines
ArrivePrepended(s, r, next) ==
    /\ invoked' = Append(invoked, s)
    /\ IF r.raised
       THEN /\ Crash(s, r.exc)
            /\ UNCHANGED <<headlines, returned>>
       ELSE /\ headlines' = r.value \o headlines
            /\ returned' = [returned EXCEPT ![s] = Some(r.value)]
            /\ pc' = next
            /\ UNCHANGED <<stderr, exitCode>>

\* the result r of adapter s arrives: headlines += r, or the exception escapes
Arrive(s, r, next) ==
    /\ invoked' = Append(invoked, s)
    /\ IF r.raised
       THEN /\ Crash(s, r.exc)
            /\ UNCHANGED <<headlines, returned>>
       ELSE /\ headlines' = headlines \o r.value
            /\ returned' = [returned EXCEPT ![s] = Some(r.value)]
            /\ pc' = next
            /\ UNCHANGED <<stderr, exitCode>>

FetchNewsapi ==
    /\ pc = "fetch_newsapi"
    /\ Selected("newsapi")
    /\ \E resp \in NewsapiResponses(NEWSAPI_KEY) :
           Arrive("newsapi", fetch_newsapi_headlines(resp), "fetch_bbc")
    /\ UNCHANGED <<args, NEWSAPI_KEY, clock, dedupeCalls, filterCalls, sinkCalls,
                   console, unitVars>>

SkipNewsapi ==
    /\ pc = "fetch_newsapi"
    /\ ~Selected("newsapi")
    /\ pc' = "fetch_bbc"
    /\ UNCHANGED <<args, NEWSAPI_KEY, headlines, clock, invoked, returned, dedupeCalls,
                   filterCalls, sinkCalls, console, stderr, exitCode, unitVars>>

FetchBbc ==
    /\ pc = "fetch_bbc"
    /\ Selected("bbc")
    /\ \E resp \in PageResponses :
         LET n == IF resp.kind = "connerr" THEN 0 ELSE Len(StrippedTitles(resp.nodes))
         IN \E nows \in NowReadings(clock, n) :
              /\ Arrive("bbc", fetch_bbc_headlines(resp, nows), "fetch_cnn")
              /\ clock' = IF n = 0 THEN clock ELSE nows[n]
    /\ UNCHANGED <<args, NEWSAPI_KEY, dedupeCalls, filterCalls, sinkCalls,
                   console, unitVars>>

SkipBbc ==
    /\ pc = "fetch_bbc"
    /\ ~Selected("bbc")
    /\ pc' = "fetch_cnn"
    /\ UNCHANGED <<args, NEWSAPI_KEY, headlines, clock, invoked, returned, dedupeCalls,
                   filterCalls, sinkCalls, console, stderr, exitCode, unitVars>>

FetchCnn ==
    /\ pc = "fetch_cnn"
    /\ Selected("cnn")
    /\ \E resp \in PageResponses :
         LET n == IF resp.kind = "connerr" THEN 0 ELSE Len(StrippedTitles(resp.nodes))
         IN \E nows \in NowReadings(clock, n) :
              /\ Arrive("cnn", fetch_cnn_headlines(resp, nows), "dedupe")
              /\ clock' = IF n = 0 THEN clock ELSE nows[n]
    /\ UNCHANGED <<args, NEWSAPI_KEY, dedupeCalls, filterCalls, sinkCalls,
                   console, unitVars>>

SkipCnn ==
    /\ pc = "fetch_cnn"
    /\ ~Selected("cnn")
    /\ pc' = "dedupe"
    /\ UNCHANGED <<args, NEWSAPI_KEY, headlines, clock, invoked, returned, dedupeCalls,
                   filterCalls, sinkCalls, console, stderr, exitCode, unitVars>>

Dedupe ==
    /\ pc = "dedupe"
    /\ dedupeCalls' = Append(dedupeCalls, headlines)
    /\ headlines' = deduplicate(headlines)
    /\ pc' = "filter"
    /\ UNCHANGED <<args, NEWSAPI_KEY, clock, invoked, returned, filterCalls, sinkCalls,
                   console, stderr, exitCode, unitVars>>

Filter ==
    /\ pc = "filter"
    /\ LET source == IF args.source # "all" THEN Some(args.source) ELSE None
       IN /\ filterCalls' = Append(filterCalls,
                 [headlines |-> headlines, source |-> source,
                  keyword |-> args.keyword, date |-> args.date])
          /\ headlines' = filter_headlines(headlines, source, args.keyword, args.date)
    /\ pc' = "store"
    /\ UNCHANGED <<args, NEWSAPI_KEY, clock, invoked, returned, dedupeCalls, sinkCalls,
                   console, stderr, exitCode, unitVars>>

\* a sink is handed `headlines` and either writes its file or raises
SinkCall(sink, next) ==
    \E ok \in BOOLEAN :
        /\ sinkCalls' = Append(sinkCalls, [sink |-> sink, data |-> headlines, ok |-> ok])
        /\ IF ok
           THEN pc' = next /\ UNCHANGED <<stderr, exitCode>>
           ELSE Crash(sink, "SinkError")

store_to_json == args.store = Some("json") /\ SinkCall("json", "export")
store_to_sqlite == args.store = Some("sqlite") /\ SinkCall("sqlite", "export")
export_csv == args.export = Some("csv") /\ SinkCall("csv", "print")
export_excel == args.export = Some("excel") /\ SinkCall("excel", "print")

Store ==
    /\ pc = "store"
    /\ \/ store_to_json
       \/ store_to_sqlite
       \/ /\ args.store = None
          /\ pc' = "export"
          /\ UNCHANGED <<sinkCalls, stderr, exitCode>>
    /\ UNCHANGED <<args, NEWSAPI_KEY, headlines, clock, invoked, returned, dedupeCalls,
                   filterCalls, console, unitVars>>

Export ==
    /\ pc = "export"
    /\ \/ export_csv
       \/ export_excel
       \/ /\ args.export = None
          /\ pc' = "print"
          /\ UNCHANGED <<sinkCalls, stderr, exitCode>>
    /\ UNCHANGED <<args, NEWSAPI_KEY, headlines, clock, invoked, returned, dedupeCalls,
                   filterCalls, console, unitVars>>

\* the line print() writes for h
Line(h) == <<"[", h.source, "] ", h.title, " (", h.publishedAt, ")">>

PrintAll ==
    /\ pc = "print"
    /\ console' = console \o [i \in 1..Len(headlines) |-> Line(headlines[i])]
    /\ pc' = "done"
    /\ exitCode' = 0
    /\ UNCHANGED <<args, NEWSAPI_KEY, headlines, clock, invoked, returned, dedupeCalls,
                   filterCalls, sinkCalls, stderr, unitVars>>

main ==
    \/ FetchNewsapi
    \/ SkipNewsapi
    \/ FetchBbc
    \/ SkipBbc
    \/ FetchCnn
    \/ SkipCnn
    \/ Dedupe
    \/ Filter
    \/ Store
    \/ Export
    \/ PrintAll

Next == main

Spec == Init /\ [][Next]_vars

----------------------------------------------------------------------------
(* Function-level runs: deduplicate and filter_headlines called on their own *)

mainIdle ==
    /\ args = [source |-> "all", keyword |-> None, date |-> None,
               store |-> None, export |-> None]
    /\ NEWSAPI_KEY = None
    /\ pc = "idle"
    /\ headlines = <<>>
    /\ clock = 1
    /\ invoked = <<>>
    /\ returned = [s \in DOMAIN NEWS_SOURCES |-> None]
    /\ dedupeCalls = <<>>
    /\ filterCalls = <<>>
    /\ sinkCalls = <<>>
    /\ console = <<>>
    /\ stderr = <<>>
    /\ exitCode = None

NoPreds == [source |-> None, keyword |-> None, date |-> None]

\* headline records handed to deduplicate
DedupRecords ==
    [source : DOMAIN NEWS_SOURCES, title : {<<"A", "b">>, <<"b">>},
     url : {ArticleUrl, NEWS_SOURCES.bbc}, publishedAt : {T1, T3}]

InitDedup ==
    /\ mainIdle
    /\ call = "start"
    /\ input \in SeqsUpTo(DedupRecords, MaxLen)
    /\ preds = NoPreds
    /\ output = <<>>

CallDeduplicate ==
    /\ call = "start"
    /\ output' = <<deduplicate(input)>>
    /\ call' = "deduplicate"
    /\ UNCHANGED <<input, preds, mainVars>>

CallDeduplicateAgain ==
    /\ call = "deduplicate"
    /\ output' = Append(output, deduplicate(output[1]))
    /\ call' = "deduplicate_twice"
    /\ UNCHANGED <<input, preds, mainVars>>

NextDedup ==
    \/ CallDeduplicate
    \/ CallDeduplicateAgain

SpecDedup == InitDedup /\ [][NextDedup]_vars

\* headline records handed to filter_headlines
FilterRecords ==
    [source : {"bbc", "cnn"}, title : {<<"A", "b">>, <<"b">>},
     url : {NEWS_SOURCES.bbc}, publishedAt : {T1, T2, T3}]

PredSources == {None, Some(""), Some("bbc")}
PredKeywords == {None, Some(<<>>), Some(<<"a">>), Some(<<"B">>)}
PredDates == {None, Some(<<>>), Some(D1)}

InitFilter ==
    /\ mainIdle
    /\ call = "start"
    /\ input \in SeqsUpTo(FilterRecords, MaxLen)
    /\ preds \in [source : PredSources, keyword : PredKeywords, date : PredDates]
    /\ output = <<>>

\* filter_headlines(x, source, keyword, date)
CallFilter ==
    /\ call = "start"
    /\ output' = <<filter_headlines(input, preds.source, preds.keyword, preds.date)>>
    /\ call' = "filter"
    /\ UNCHANGED <<input, preds, mainVars>>

\* filter_headlines(x)
CallFilterNoPredicate ==
    /\ call = "start"
    /\ output' = <<filter_headlines(input, None, None, None)>>
    /\ call' = "filter_none"
    /\ UNCHANGED <<input, preds, mainVars>>

\* filter_headlines(x, source=S)
CallFilterSource ==
    /\ call = "start"
    /\ output' = <<filter_headlines(input, preds.source, None, None)>>
    /\ call' = "filter_source"
    /\ UNCHANGED <<input, preds, mainVars>>

\* filter_headlines(previous result, keyword=K)
CallFilterKeyword ==
    /\ call = "filter_source"
    /\ output' = Append(output, filter_headlines(output[1], None, preds.keyword, None))
    /\ call' = "filter_source_keyword"
    /\ UNCHANGED <<input, preds, mainVars>>

\* deduplicate, then filter_headlines on its result, as main() does
CallDedupeThenFilter ==
    /\ call = "start"
    /\ LET d == deduplicate(input)
       IN output' = <<d, filter_headlines(d, preds.source, preds.keyword, preds.date)>>
    /\ call' = "dedupe_filter"
    /\ UNCHANGED <<input, preds, mainVars>>

NextFilter ==
    \/ CallFilter
    \/ CallFilterNoPredicate
    \/ CallFilterSource
    \/ CallFilterKeyword
    \/ CallDedupeThenFilter

SpecFilter == InitFilter /\ [][NextFilter]_vars

----------------------------------------------------------------------------
(* Properties *)

Range(f) == {f[i] : i \in DOMAIN f}

IsPrefix(a, b) == Len(a) <= Len(b) /\ SubSeq(b, 1, Len(a)) = a

\* a is b with some elements left out
RECURSIVE IsSubsequence(_, _)
IsSubsequence(a, b) ==
    IF a = <<>> THEN TRUE
    ELSE IF b = <<>> THEN FALSE
    ELSE IF Head(a) = Head(b) THEN IsSubsequence(Tail(a), Tail(b))
    ELSE IsSubsequence(a, Tail(b))

\* the index of the first record of hs with key k
FirstIndex(hs, k) ==
    CHOOSE i \in 1..Len(hs) : Key(hs[i]) = k /\ \A j \in 1..(i - 1) : Key(hs[j]) # k

\* the adapters main() is to call, in its fixed order
AdapterOrder == SelectSeq(<<"newsapi", "bbc", "cnn">>, Selected)

\* adapter s was called and raised
AdapterFailed(s) == s \in Range(invoked) /\ returned[s].isNone

\* a warning naming source s was reported
FailureReported(s) == \E i \in 1..Len(stderr) :
    stderr[i].kind = "warning" /\ stderr[i].at = s

Lines(hs) == [i \in 1..Len(hs) |-> Line(hs[i])]

\* the sinks the arguments configure
ConfiguredSinks ==
    (IF args.store.isNone THEN {} ELSE {args.store.val})
        \cup (IF args.export.isNone THEN {} ELSE {args.export.val})

\* C1: with --source all, when one adapter fails the run does not abort: the
\* other adapters are still called, the failure is recorded for that source
\* only, and the run ends with exit code 0 having dispatched the deduplicated,
\* filtered headlines of the adapters that succeeded.
C1_AdapterFailureIsolated ==
    (args.source = "all" /\ \E s \in DOMAIN NEWS_SOURCES : AdapterFailed(s)) =>
        /\ pc # "crashed"
        /\ \A s \in DOMAIN NEWS_SOURCES : FailureReported(s) <=> AdapterFailed(s)
        /\ pc = "done" =>
              /\ invoked = <<"newsapi", "bbc", "cnn">>
              /\ exitCode = 0
              /\ console = Lines(headlines)

\* C2: a sink that fails neither keeps the other configured sink from being
\* called nor suppresses the console output: one line per kept headline is
\* still printed.
C2_SinkFailureIsolated ==
    (\E i \in 1..Len(sinkCalls) : ~sinkCalls[i].ok) =>
        /\ pc # "crashed"
        /\ pc = "done" =>
              /\ {sinkCalls[i].sink : i \in 1..Len(sinkCalls)} = ConfiguredSinks
              /\ console = Lines(headlines)

\* C3: without NEWSAPI_KEY, a run that selects newsapi does not crash in the
\* newsapi adapter: the adapter ends in a reported fetch failure for newsapi,
\* and the rest of the run proceeds.
C3_MissingKeyReported ==
    (NEWSAPI_KEY.isNone /\ "newsapi" \in Range(invoked)) =>
        /\ ~(pc = "crashed" /\ stderr[Len(stderr)].at = "newsapi")
        /\ FailureReported("newsapi")

\* C4: deduplicate keeps exactly one record per distinct (title, source) pair
\* of its input, and that record is the pair's first occurrence in the input.
C4_FirstOccurrencePerKey ==
    call = "deduplicate" =>
        LET out == output[1]
        IN /\ {Key(out[i]) : i \in 1..Len(out)} = {Key(input[i]) : i \in 1..Len(input)}
           /\ \A i, j \in 1..Len(out) : Key(out[i]) = Key(out[j]) => i = j
           /\ \A i \in 1..Len(out) : out[i] = input[FirstIndex(input, Key(out[i]))]

\* C4 witness: the flood scenario: bbc, cnn, bbc with one title, the third
\* record differing from the first in url and publishedAt; the first two stay.
C4_Witness ==
    /\ call = "deduplicate"
    /\ Len(input) = 3
    /\ input[1].source = "bbc" /\ input[2].source = "cnn" /\ input[3].source = "bbc"
    /\ input[1].title = input[2].title /\ input[1].title = input[3].title
    /\ input[1].url # input[3].url
    /\ input[1].publishedAt # input[3].publishedAt
    /\ output[1] = <<input[1], input[2]>>

\* C5: the output of deduplicate is a subsequence of its input.
C5_OutputIsSubsequence ==
    call = "deduplicate" => IsSubsequence(output[1], input)

\* C5 witness: a duplicate was dropped from between two records that stay.
C5_Witness ==
    /\ call = "deduplicate"
    /\ Len(input) = 3
    /\ output[1] = <<input[1], input[3]>>
    /\ input[1] # input[3]

\* C6: deduplicate(deduplicate(x)) = deduplicate(x).
C6_Idempotent ==
    call = "deduplicate_twice" => output[2] = output[1]

\* C6 witness: the first call dropped a record, the second was applied to
\* what remained.
C6_Witness ==
    /\ call = "deduplicate_twice"
    /\ Len(output[1]) < Len(input)
    /\ Len(output[2]) >= 2

\* C7: filtering by source and then by keyword equals one call with both
\* predicates, and a call with no predicate returns its input unchanged.
C7_FilterConjunction ==
    /\ call = "filter_source_keyword" =>
           output[2] = filter_headlines(input, preds.source, preds.keyword, None)
    /\ call = "filter_none" => output[1] = input

\* C7 witness: each of the two predicates removed a record and one is left.
C7_Witness ==
    /\ call = "filter_source_keyword"
    /\ TruthyName(preds.source) /\ TruthyText(preds.keyword)
    /\ Len(output[1]) < Len(input)
    /\ Len(output[2]) < Len(output[1])
    /\ Len(output[2]) > 0

\* C8: no headline whose title is empty after trimming is ever in the list
\* main() collects, hands to deduplicate or prints.
C8_NoBlankTitle ==
    \A i \in 1..Len(headlines) : Strip(headlines[i].title) # <<>>

\* C9: the stages run in the order Fetch, Dedupe, Filter, Dispatch: adapters
\* are called in the order newsapi, bbc, cnn; deduplicate is called once, on
\* the concatenation of the selected adapters' results in that order;
\* filter_headlines is called once, on the whole result of deduplicate; and
\* every sink call and console line carries the result of filter_headlines.
C9_StagesInOrder ==
    /\ IsPrefix(invoked, AdapterOrder)
    /\ Len(dedupeCalls) <= 1
    /\ Len(filterCalls) <= 1
    /\ Len(dedupeCalls) = 1 =>
          /\ invoked = AdapterOrder
          /\ \A s \in Range(AdapterOrder) : ~returned[s].isNone
          /\ dedupeCalls[1] =
                Flatten([i \in 1..Len(AdapterOrder) |-> returned[AdapterOrder[i]].val])
    /\ Len(filterCalls) = 1 =>
          /\ Len(dedupeCalls) = 1
          /\ filterCalls[1].headlines = deduplicate(dedupeCalls[1])
    /\ (sinkCalls # <<>> \/ console # <<>>) =>
          /\ Len(filterCalls) = 1
          /\ LET c == filterCalls[1]
                 final == filter_headlines(c.headlines, c.source, c.keyword, c.date)
             IN /\ \A i \in 1..Len(sinkCalls) : sinkCalls[i].data = final
                /\ console \in {<<>>, Lines(final)}

\* C9 witness: a finished run over all three sources, each with a headline,
\* that stored, exported and printed.
C9_Witness ==
    /\ pc = "done"
    /\ args.source = "all"
    /\ \A s \in DOMAIN NEWS_SOURCES : ~returned[s].isNone /\ returned[s].val # <<>>
    /\ Len(sinkCalls) = 2
    /\ console # <<>>

\* an input record that passes every supplied predicate
Passes(h, p) == filter_headlines(<<h>>, p.source, p.keyword, p.date) = <<h>>

\* records of one key carry one calendar date
SameKeySameDate(hs) ==
    \A i, j \in 1..Len(hs) :
        Key(hs[i]) = Key(hs[j]) =>
            Prefix(hs[i].publishedAt, DateLen) = Prefix(hs[j].publishedAt, DateLen)

Commutes ==
    /\ output[2] =
          deduplicate(filter_headlines(input, preds.source, preds.keyword, preds.date))
    /\ \A i \in 1..Len(input) :
          Passes(input[i], preds) =>
              \E j \in 1..Len(output[2]) : Key(output[2][j]) = Key(input[i])

\* C10 as stated: filter_headlines(deduplicate(x), P) = deduplicate(filter_headlines(x, P))
\* for every x and every P over source, keyword and date, and no record that
\* passes P loses its key from the result.
C10_DedupeFilterCommute ==
    call = "dedupe_filter" => Commutes

\* C10 amended: the same, for P without a date predicate, or x whose records
\* of one key carry one calendar date.
C10_CommuteWithoutDateSplit ==
    (call = "dedupe_filter" /\ (~TruthyText(preds.date) \/ SameKeySameDate(input))) =>
        Commutes

\* C10 witness: source and keyword predicates at work on an input with a
\* duplicate key, with records removed by both deduplicate and the filter.
C10_Witness ==
    /\ call = "dedupe_filter"
    /\ ~TruthyText(preds.date)
    /\ TruthyName(preds.source) /\ TruthyText(preds.keyword)
    /\ Len(output[1]) < Len(input)
    /\ Len(output[2]) < Len(output[1])
    /\ Len(output[2]) > 0

====
